---- MODULE Spec2Model ----
(***************************************************************************)
(* LaudaT2200: a Tango device server that bridges a Lauda T2200 chiller    *)
(* on a serial line.  The model follows src/LaudaT2200.py: init_device,    *)
(* the communication thread (_communication_loop and the seven _read_*     *)
(* and _write_* helpers) and the attribute accessors the Tango layer       *)
(* calls from its own thread.                                              *)
(*                                                                         *)
(* Text is modelled as sequences of one-character strings, so that         *)
(* strip(), float(), int() and the f-string formatting are computed and    *)
(* not assumed.  A Python float is modelled as an exact decimal            *)
(* [neg, m, e] standing for (-1)^neg * m / 10^e with no trailing zero in   *)
(* the fraction; the response alphabet has plain decimal numerals and      *)
(* words only (no exponent forms, no "inf"/"nan").                         *)
(***************************************************************************)
EXTENDS Integers, Sequences, FiniteSets, TLC

(***************************************************************************)
(* Bounds of the model.                                                    *)
(***************************************************************************)
\* how many distinct setpoint values the collaborator may submit
NumSetpoints == 2

(***************************************************************************)
(* Text and number conversions.                                            *)
(***************************************************************************)
Digits == <<"0", "1", "2", "3", "4", "5", "6", "7", "8", "9">>

IsDigit(c) == \E i \in 1..10 : Digits[i] = c

DigitVal(c) == (CHOOSE i \in 1..10 : Digits[i] = c) - 1

IsSpace(c) == c \in {" ", "\r", "\n", "\t"}

RECURSIVE LStrip(_)
LStrip(s) == IF s # <<>> /\ IsSpace(Head(s)) THEN LStrip(Tail(s)) ELSE s

RECURSIVE RStrip(_)
RStrip(s) ==
    IF s # <<>> /\ IsSpace(s[Len(s)]) THEN RStrip(SubSeq(s, 1, Len(s) - 1)) ELSE s

\* str.strip()
Strip(s) == RStrip(LStrip(s))

AllDigits(s) == \A i \in 1..Len(s) : IsDigit(s[i])

RECURSIVE DigitsVal(_)
DigitsVal(s) ==
    IF s = <<>> THEN 0
    ELSE 10 * DigitsVal(SubSeq(s, 1, Len(s) - 1)) + DigitVal(s[Len(s)])

RECURSIVE Pow10(_)
Pow10(n) == IF n = 0 THEN 1 ELSE 10 * Pow10(n - 1)

RECURSIVE Normalize(_)
Normalize(f) ==
    IF f.e > 0 /\ f.m % 10 = 0
    THEN Normalize([neg |-> f.neg, m |-> f.m \div 10, e |-> f.e - 1])
    ELSE f

HasSign(s) == s # <<>> /\ Head(s) \in {"+", "-"}

Unsigned(s) == IF HasSign(s) THEN Tail(s) ELSE s

DotPos(s) == IF \E i \in 1..Len(s) : s[i] = "."
             THEN CHOOSE i \in 1..Len(s) : s[i] = "." /\ \A j \in 1..(i - 1) : s[j] # "."
             ELSE 0

\* float(text): [ok |-> FALSE] stands for ValueError
ParseFloat(text) ==
    LET s    == Strip(text)
        u    == Unsigned(s)
        d    == DotPos(u)
        ip   == IF d = 0 THEN u ELSE SubSeq(u, 1, d - 1)
        fp   == IF d = 0 THEN <<>> ELSE SubSeq(u, d + 1, Len(u))
        good == /\ AllDigits(ip) /\ AllDigits(fp)
                /\ Len(ip) + Len(fp) > 0
    IN  IF good
        THEN [ok |-> TRUE,
              val |-> Normalize([neg |-> HasSign(s) /\ Head(s) = "-",
                                 m |-> DigitsVal(ip \o fp), e |-> Len(fp)])]
        ELSE [ok |-> FALSE, val |-> [neg |-> FALSE, m |-> 0, e |-> 0]]

\* int(x) of a float x: truncation toward zero
IntOfFloat(f) ==
    LET q == f.m \div Pow10(f.e) IN IF f.neg THEN 0 - q ELSE q

\* int(text) of a string: an optional sign and decimal digits only
ParseInt(text) ==
    LET s == Strip(text)
        u == Unsigned(s)
    IN  IF u # <<>> /\ AllDigits(u)
        THEN [ok |-> TRUE,
              val |-> IF Head(s) = "-" THEN 0 - DigitsVal(u) ELSE DigitsVal(u)]
        ELSE [ok |-> FALSE, val |-> 0]

RECURSIVE NatStr(_)
NatStr(n) ==
    IF n < 10 THEN Digits[n + 1] ELSE NatStr(n \div 10) \o Digits[(n % 10) + 1]

RECURSIVE FracStr(_, _)
FracStr(n, width) ==
    IF width = 0 THEN "" ELSE FracStr(n \div 10, width - 1) \o Digits[(n % 10) + 1]

\* f"{x}" of a float x (repr: at least one digit after the point)
FmtFloat(f) ==
    (IF f.neg THEN "-" ELSE "")
        \o NatStr(f.m \div Pow10(f.e)) \o "."
        \o (IF f.e = 0 THEN "0" ELSE FracStr(f.m % Pow10(f.e), f.e))

Float(mant, exp) == Normalize([neg |-> FALSE, m |-> mant, e |-> exp])

(***************************************************************************)
(* The device side of the serial line: the lines readline() may return for *)
(* each command.  A line carries its terminator; the empty line is what    *)
(* readline() returns when the timeout expires.                            *)
(***************************************************************************)
Line(s) == s \o <<"\r", "\n">>

TimedOut == <<>>

Txt_OK == <<"O", "K">>

Txt_ERR == <<"E", "R", "R">>

BathLines == {Line(<<"2", "3", ".", "5">>), Line(Txt_ERR), TimedOut}

PressureLines == {Line(<<"1", ".", "2">>), TimedOut}

SetpLines == {Line(<<"2", "1", ".", "0">>), Line(<<"1", "9", ".", "5">>), Line(Txt_ERR)}

StatusLines == {Line(<<"0">>), Line(<<"-", "1">>), Line(<<"0", ".", "0">>),
                Line(<<"2">>), TimedOut}

StatLines == {Line(Txt_OK), TimedOut}

ModeLines == {Line(<<"0">>), Line(<<"1">>), Line(<<"2">>), TimedOut}

EchoLines == {Line(Txt_OK)}

\* the values the collaborator writes to temp_setp
SetpointValues == {Float(180 + 75 * (i - 1), 1) : i \in 1..NumSetpoints}

(***************************************************************************)
(* State.                                                                  *)
(***************************************************************************)
VARIABLES
    state,              \* Tango DevState: "INIT", "ON", "RUNNING", "FAULT"
    bath_temp,          \* self._bath_temp
    temp_setp,          \* self._temp_setp
    temp_setp_changed,  \* self._temp_setp_changed
    chiller_status,     \* self._chiller_status
    is_on,              \* self._is_on
    is_on_toggle,       \* self._is_on_toggle
    pressure,           \* self._pressure
    serial_lock,        \* holder of self.serial_lock: "free" or "worker"
    ipc,                \* position of init_device
    pc,                 \* position of the communication thread
    command,            \* the command most recently written by the thread
                        \* (its local `command`, without the terminator)
    response,           \* the local `response` of init_device or of the
                        \* thread's helper, <<>> outside them
    exc,                \* the exception that ended the thread, or "none"
    cpc,                \* position of the collaborator's call
    carg,               \* argument of the collaborator's write_is_on call
    wire,               \* exchanges in progress: command written, line not read
    \* history, kept for the properties only
    powerLog,           \* START/STOP commands written in this cycle's flush
    pushed,             \* is_on change events pushed in this cycle's flush
    reqSetp,            \* {value of the latest write_temp_setp call} while no
                        \* OUT_SP_00 command has been formed since, else {}
    sleepSetp,          \* {value of the latest write_temp_setp call}, when
                        \* that call was made between two cycles (the thread
                        \* at line 134 or about to enter line 121) and none
                        \* was made in the flush that follows; else {}
    sleepPower,         \* likewise for write_is_on
    alarm,              \* the latest STATUS code the thread read was -1
                        \* (a later 0 resets it)
    nominal             \* so far every line read was the healthy device's
                        \* answer and the collaborator has written nothing

vars == <<state, bath_temp, temp_setp, temp_setp_changed, chiller_status, is_on,
          is_on_toggle, pressure, serial_lock, ipc, pc, command, response, exc,
          cpc, carg, wire, powerLog, pushed, reqSetp, sleepSetp, sleepPower,
          alarm, nominal>>

device == <<bath_temp, temp_setp, temp_setp_changed, chiller_status, is_on,
            is_on_toggle, pressure>>

collab == <<cpc, carg>>

flushHistory == <<powerLog, pushed, sleepSetp, sleepPower>>

history == <<flushHistory, reqSetp, alarm>>

\* init_device, lines 24-34
Init ==
    /\ state = "INIT"
    /\ bath_temp = Float(0, 0)
    /\ temp_setp = Float(210, 1)
    /\ temp_setp_changed = FALSE
    /\ chiller_status = <<>>
    /\ is_on = FALSE
    /\ is_on_toggle = FALSE
    /\ pressure = Float(0, 0)
    /\ serial_lock = "free"
    /\ ipc = "open"
    /\ pc = "idle"
    /\ command = ""
    /\ response = <<>>
    /\ exc = "none"
    /\ cpc = "idle"
    /\ carg = FALSE
    /\ wire = {}
    /\ powerLog = <<>>
    /\ pushed = <<>>
    /\ reqSetp = {}
    /\ sleepSetp = {}
    /\ sleepPower = {}
    /\ alarm = FALSE
    /\ nominal = TRUE

(***************************************************************************)
(* The serial port, as the communication thread uses it.                   *)
(***************************************************************************)
Exchange(who, cmd) == [by |-> who, cmd |-> cmd]

\* the healthy device of the end-to-end scenario: the text of its answer to
\* each query
HealthyAnswer(cmd) ==
    IF cmd = "STATUS" THEN <<"0">>
    ELSE IF cmd = "IN_PV_00" THEN <<"2", "3", ".", "5">>
    ELSE IF cmd = "IN_PV_02" THEN <<"1", ".", "2">>
    ELSE IF cmd = "IN_SP_00" THEN <<"2", "1", ".", "0">>
    ELSE IF cmd = "STAT" THEN <<"O", "K">>
    ELSE IF cmd = "IN_MODE_02" THEN <<"0">>
    ELSE <<>>

\* the thread goes on to its next statement
Continue(next) ==
    /\ pc' = next
    /\ UNCHANGED <<exc, serial_lock>>

\* an uncaught exception leaves the `with` block (releasing the lock) and
\* ends the thread
Abort(e) ==
    /\ pc' = "dead"
    /\ exc' = e
    /\ serial_lock' = "free"

\* command = ...; self.serial_port.write(command.encode())
Send(cmd, next) ==
    /\ command' = cmd
    /\ \/ /\ wire' = wire \cup {Exchange("worker", cmd)}
          /\ Continue(next)
       \/ /\ Abort("SerialException")
          /\ UNCHANGED wire
    /\ UNCHANGED <<response, nominal>>

\* response = self.serial_port.readline().decode().strip()
Receive(lines, next) ==
    /\ \/ /\ \E raw \in lines :
                /\ response' = Strip(raw)
                /\ nominal' = (nominal /\ raw = Line(HealthyAnswer(command)))
          /\ wire' = wire \ {Exchange("worker", command)}
          /\ Continue(next)
       \/ /\ Abort("SerialException")
          /\ wire' = {}
          /\ nominal' = FALSE
          /\ UNCHANGED response
    /\ UNCHANGED command

\* the helper returns: its locals are gone
Return(next) ==
    /\ response' = <<>>
    /\ Continue(next)
    /\ UNCHANGED <<command, wire, nominal>>

\* the ValueError of an unguarded conversion
Uncaught(e) ==
    /\ response' = <<>>
    /\ Abort(e)
    /\ UNCHANGED <<command, wire, nominal>>

(***************************************************************************)
(* init_device (lines 22-68), run before the device is exported.           *)
(***************************************************************************)
\* the except clause, lines 65-68
InitFailed ==
    /\ state' = "FAULT"
    /\ ipc' = "failed"
    /\ wire' = {}

\* lines 40-48
InitOpen ==
    /\ ipc = "open"
    /\ \/ /\ ipc' = "probe_w"
          /\ UNCHANGED <<state, wire>>
       \/ InitFailed
    /\ UNCHANGED <<nominal, device, collab, history, serial_lock, pc, command, response,
                   exc>>

\* lines 50-51
InitProbeWrite ==
    /\ ipc = "probe_w"
    /\ \/ /\ wire' = wire \cup {Exchange("init", "STATUS")}
          /\ ipc' = "probe_r"
          /\ UNCHANGED state
       \/ InitFailed
    /\ UNCHANGED <<nominal, device, collab, history, serial_lock, pc, command, response,
                   exc>>

\* line 52: response = self.serial_port.readline().decode().strip()
InitProbeRead ==
    /\ ipc = "probe_r"
    /\ \/ /\ \E raw \in StatusLines :
                /\ response' = Strip(raw)
                /\ nominal' = (nominal /\ raw = Line(HealthyAnswer("STATUS")))
          /\ wire' = wire \ {Exchange("init", "STATUS")}
          /\ ipc' = "probe_c"
          /\ UNCHANGED state
       \/ /\ InitFailed
          /\ nominal' = FALSE
          /\ UNCHANGED response
    /\ UNCHANGED <<device, collab, history, serial_lock, pc, command, exc>>

\* a slip in lines 55-59: the conversion written as in _read_chiller_status,
\* int(float(response))
InitProbeCode_AsPolled(text) ==
    LET f == ParseFloat(text) IN [ok |-> f.ok, val |-> IntOfFloat(f.val)]

\* int(response), lines 55 and 57
InitProbeCode(text) == ParseInt(text)

\* lines 55-59; a ValueError of int(response) is caught at line 65
InitProbeCheck ==
    /\ ipc = "probe_c"
    /\ LET code == InitProbeCode(response) IN
       IF code.ok
       THEN /\ state' = IF code.val = 0 THEN "ON"
                        ELSE IF code.val = 0 - 1 THEN "FAULT" ELSE state
            /\ ipc' = "start"
            /\ UNCHANGED wire
       ELSE InitFailed
    /\ response' = <<>>
    /\ UNCHANGED <<nominal, device, collab, history, serial_lock, pc, command, exc>>

\* lines 62-64
InitStartThread ==
    /\ ipc = "start"
    /\ ipc' = "done"
    /\ pc' = "lock1"
    /\ UNCHANGED <<nominal, state, device, collab, history, serial_lock, command,
                   response, exc, wire>>

(***************************************************************************)
(* The communication thread: _communication_loop (lines 119-134) and the   *)
(* helpers it calls.                                                       *)
(***************************************************************************)
\* `with self.serial_lock:` entered (lines 121, 125, 131)
Acquire(at, next) ==
    /\ pc = at
    /\ serial_lock = "free"
    /\ serial_lock' = "worker"
    /\ pc' = next

\* the end of a `with` block
Release(at, next) ==
    /\ pc = at
    /\ serial_lock' = "free"
    /\ pc' = next

\* the thread is between two cycles
BetweenCycles == pc \in {"sleep", "lock1"}

\* line 121; a collaborator call still under way is not one made between
\* two cycles
AcquireFlush ==
    /\ Acquire("lock1", "ison_chk")
    /\ sleepSetp' = IF cpc = "idle" THEN sleepSetp ELSE {}
    /\ sleepPower' = IF cpc = "idle" THEN sleepPower ELSE {}
    /\ UNCHANGED <<nominal, state, device, collab, powerLog, pushed, reqSetp, alarm, ipc,
                   command, response, exc, wire>>

\* a slip in line 187: the test of the flag left out
WriteIsOn_Check_Unconditional ==
    /\ pc = "ison_chk"
    /\ pc' = "ison_w"
    /\ UNCHANGED <<nominal, state, device, collab, history, ipc, serial_lock,
                   command, response, exc, wire>>

\* _write_is_on, line 187
WriteIsOn_Check ==
    /\ pc = "ison_chk"
    /\ pc' = IF is_on_toggle THEN "ison_w" ELSE "setp_chk"
    /\ UNCHANGED <<nominal, state, device, collab, history, ipc, serial_lock, command,
                   response, exc, wire>>

\* a slip in line 188: the two commands swapped
PowerCommand_Swapped(on) == IF on THEN "STOP" ELSE "START"

\* the command of line 188
PowerCommand(on) == IF on THEN "START" ELSE "STOP"

\* _write_is_on, lines 188-189
WriteIsOn_Send ==
    /\ pc = "ison_w"
    /\ Send(PowerCommand(is_on), "ison_r")
    /\ powerLog' = IF pc' = "ison_r" THEN Append(powerLog, command') ELSE powerLog
    /\ UNCHANGED <<state, device, collab, pushed, sleepSetp, sleepPower, reqSetp,
                   alarm, ipc>>

\* _write_is_on, lines 190-191
WriteIsOn_Recv ==
    /\ pc = "ison_r"
    /\ Receive(EchoLines, "ison_settle")
    /\ UNCHANGED <<state, device, collab, history, ipc>>

\* a slip in lines 193-196: RUNNING set whatever the request
WriteIsOn_SetState_Running ==
    /\ pc = "ison_settle"
    /\ state' = "RUNNING"
    /\ pc' = "ison_push"
    /\ UNCHANGED <<nominal, device, collab, history, ipc, serial_lock, command,
                   response, exc, wire>>

\* _write_is_on, lines 192-196
WriteIsOn_SetState ==
    /\ pc = "ison_settle"
    /\ state' = IF is_on THEN "RUNNING" ELSE "ON"
    /\ pc' = "ison_push"
    /\ UNCHANGED <<nominal, device, collab, history, ipc, serial_lock, command, response,
                   exc, wire>>

\* _write_is_on, line 197
WriteIsOn_Push ==
    /\ pc = "ison_push"
    /\ pushed' = Append(pushed, is_on)
    /\ pc' = "ison_clr"
    /\ UNCHANGED <<nominal, state, device, collab, powerLog, sleepSetp, sleepPower,
                   reqSetp, alarm, ipc, serial_lock, command, response, exc, wire>>

\* _write_is_on, line 198
WriteIsOn_Clear ==
    /\ pc = "ison_clr"
    /\ is_on_toggle' = FALSE
    /\ Return("setp_chk")
    /\ UNCHANGED <<state, bath_temp, temp_setp, temp_setp_changed, chiller_status,
                   is_on, pressure, collab, history, ipc>>

\* _write_setp, line 210
WriteSetp_Check ==
    /\ pc = "setp_chk"
    /\ pc' = IF temp_setp_changed THEN "setp_w" ELSE "unlock1"
    /\ UNCHANGED <<nominal, state, device, collab, history, ipc, serial_lock, command,
                   response, exc, wire>>

\* the command of line 211
OutSp(value) == "OUT_SP_00_" \o FmtFloat(value)

\* _write_setp, lines 211-212
WriteSetp_Send ==
    /\ pc = "setp_w"
    /\ Send(OutSp(temp_setp), "setp_r")
    /\ reqSetp' = {}
    /\ UNCHANGED <<state, device, collab, flushHistory, alarm, ipc>>

\* _write_setp, lines 213-214
WriteSetp_Recv ==
    /\ pc = "setp_r"
    /\ Receive(EchoLines, "setp_clr")
    /\ UNCHANGED <<state, device, collab, history, ipc>>

\* a slip in _write_setp: line 215 left out
WriteSetp_Clear_Forgotten ==
    /\ pc = "setp_clr"
    /\ Return("unlock1")
    /\ UNCHANGED <<state, device, collab, history, ipc>>

\* _write_setp, line 215
WriteSetp_Clear ==
    /\ pc = "setp_clr"
    /\ temp_setp_changed' = FALSE
    /\ Return("unlock1")
    /\ UNCHANGED <<state, bath_temp, temp_setp, chiller_status, is_on,
                   is_on_toggle, pressure, collab, history, ipc>>

\* the end of the first `with` block, line 123
ReleaseFlush ==
    /\ Release("unlock1", "lock2")
    /\ UNCHANGED <<nominal, state, device, collab, history, ipc, command, response, exc,
                   wire>>

\* line 125; the flush is over and the read cycle begins
AcquireRead ==
    /\ Acquire("lock2", "bath_w")
    /\ powerLog' = <<>>
    /\ pushed' = <<>>
    /\ sleepSetp' = {}
    /\ sleepPower' = {}
    /\ UNCHANGED <<nominal, state, device, collab, reqSetp, alarm, ipc, command, response,
                   exc, wire>>

\* a slip in the except clause: the reading reset instead of kept
StoreFloat_Reset(old, text) ==
    LET f == ParseFloat(text) IN IF f.ok THEN f.val ELSE Float(0, 0)

\* try: x = float(response) / except ValueError: (log only)
\* (lines 142-145, 167-170 and 204-207)
StoreFloat(old, text) ==
    LET f == ParseFloat(text) IN IF f.ok THEN f.val ELSE old

\* _read_bath_temp, lines 139-140
ReadBathTemp_Send ==
    /\ pc = "bath_w"
    /\ Send("IN_PV_00", "bath_r")
    /\ UNCHANGED <<state, device, collab, history, ipc>>

\* _read_bath_temp, line 141
ReadBathTemp_Recv ==
    /\ pc = "bath_r"
    /\ Receive(BathLines, "bath_p")
    /\ UNCHANGED <<state, device, collab, history, ipc>>

\* a slip in line 127: _read_pressure not called
ReadBathTemp_Store_NoPressure ==
    /\ pc = "bath_p"
    /\ bath_temp' = StoreFloat(bath_temp, response)
    /\ Return("sp_w")
    /\ UNCHANGED <<state, temp_setp, temp_setp_changed, chiller_status, is_on,
                   is_on_toggle, pressure, collab, history, ipc>>

\* _read_bath_temp, lines 142-145
ReadBathTemp_Store ==
    /\ pc = "bath_p"
    /\ bath_temp' = StoreFloat(bath_temp, response)
    /\ Return("pres_w")
    /\ UNCHANGED <<state, temp_setp, temp_setp_changed, chiller_status, is_on,
                   is_on_toggle, pressure, collab, history, ipc>>

\* _read_pressure, lines 164-165
ReadPressure_Send ==
    /\ pc = "pres_w"
    /\ Send("IN_PV_02", "pres_r")
    /\ UNCHANGED <<state, device, collab, history, ipc>>

\* _read_pressure, line 166
ReadPressure_Recv ==
    /\ pc = "pres_r"
    /\ Receive(PressureLines, "pres_p")
    /\ UNCHANGED <<state, device, collab, history, ipc>>

\* _read_pressure, lines 167-170
ReadPressure_Store ==
    /\ pc = "pres_p"
    /\ pressure' = StoreFloat(pressure, response)
    /\ Return("sp_w")
    /\ UNCHANGED <<state, bath_temp, temp_setp, temp_setp_changed, chiller_status,
                   is_on, is_on_toggle, collab, history, ipc>>

\* _read_setp, lines 201-202
ReadSetp_Send ==
    /\ pc = "sp_w"
    /\ Send("IN_SP_00", "sp_r")
    /\ UNCHANGED <<state, device, collab, history, ipc>>

\* _read_setp, line 203
ReadSetp_Recv ==
    /\ pc = "sp_r"
    /\ Receive(SetpLines, "sp_p")
    /\ UNCHANGED <<state, device, collab, history, ipc>>

\* _read_setp, lines 204-207
ReadSetp_Store ==
    /\ pc = "sp_p"
    /\ temp_setp' = StoreFloat(temp_setp, response)
    /\ Return("status_w")
    /\ UNCHANGED <<state, bath_temp, temp_setp_changed, chiller_status, is_on,
                   is_on_toggle, pressure, collab, history, ipc>>

\* _read_chiller_status, lines 148-149
ReadStatus_Send ==
    /\ pc = "status_w"
    /\ Send("STATUS", "status_r")
    /\ UNCHANGED <<state, device, collab, history, ipc>>

\* _read_chiller_status, line 150
ReadStatus_Recv ==
    /\ pc = "status_r"
    /\ Receive(StatusLines, "status_p")
    /\ UNCHANGED <<state, device, collab, history, ipc>>

\* a slip in lines 152-153: the ok code sets the state ON, as in init_device
ReadStatus_Check_OkSetsOn ==
    /\ pc = "status_p"
    /\ LET f    == ParseFloat(response)
           code == IntOfFloat(f.val)
       IN  IF f.ok
           THEN /\ state' = IF code = 0 - 1 THEN "FAULT"
                            ELSE IF code = 0 THEN "ON" ELSE state
                /\ alarm' = IF code = 0 - 1 THEN TRUE
                            ELSE IF code = 0 THEN FALSE ELSE alarm
                /\ Return("stat_w")
           ELSE /\ Uncaught("ValueError")
                /\ UNCHANGED <<state, alarm>>
    /\ UNCHANGED <<device, collab, flushHistory, reqSetp, ipc>>

\* _read_chiller_status, lines 152-156: int(float(response)) is not guarded
ReadStatus_Check ==
    /\ pc = "status_p"
    /\ LET f    == ParseFloat(response)
           code == IntOfFloat(f.val)
       IN  IF f.ok
           THEN /\ state' = IF code = 0 - 1 THEN "FAULT" ELSE state
                /\ alarm' = IF code = 0 - 1 THEN TRUE
                            ELSE IF code = 0 THEN FALSE ELSE alarm
                /\ Return("stat_w")
           ELSE /\ Uncaught("ValueError")
                /\ UNCHANGED <<state, alarm>>
    /\ UNCHANGED <<device, collab, flushHistory, reqSetp, ipc>>

\* _read_chiller_status, lines 158-159
ReadStat_Send ==
    /\ pc = "stat_w"
    /\ Send("STAT", "stat_r")
    /\ UNCHANGED <<state, device, collab, history, ipc>>

\* _read_chiller_status, line 160
ReadStat_Recv ==
    /\ pc = "stat_r"
    /\ Receive(StatLines, "stat_p")
    /\ UNCHANGED <<state, device, collab, history, ipc>>

\* a slip in _read_chiller_status: line 161 left out
ReadStat_Store_Unassigned ==
    /\ pc = "stat_p"
    /\ Return("unlock2")
    /\ UNCHANGED <<state, device, collab, history, ipc>>

\* _read_chiller_status, line 161
ReadStat_Store ==
    /\ pc = "stat_p"
    /\ chiller_status' = response
    /\ Return("unlock2")
    /\ UNCHANGED <<state, bath_temp, temp_setp, temp_setp_changed, is_on,
                   is_on_toggle, pressure, collab, history, ipc>>

\* the end of the second `with` block, line 129
ReleaseRead ==
    /\ Release("unlock2", "lock3")
    /\ UNCHANGED <<nominal, state, device, collab, history, ipc, command, response, exc,
                   wire>>

\* a slip in line 131: _read_is_on called outside the lock
AcquireMode_Unlocked ==
    /\ pc = "lock3"
    /\ pc' = "mode_w"
    /\ UNCHANGED <<nominal, state, device, collab, history, ipc, serial_lock, command,
                   response, exc, wire>>

\* line 131
AcquireMode ==
    /\ Acquire("lock3", "mode_w")
    /\ UNCHANGED <<nominal, state, device, collab, history, ipc, command, response, exc,
                   wire>>

\* _read_is_on, lines 173-174
ReadIsOn_Send ==
    /\ pc = "mode_w"
    /\ Send("IN_MODE_02", "mode_r")
    /\ UNCHANGED <<state, device, collab, history, ipc>>

\* _read_is_on, line 175
ReadIsOn_Recv ==
    /\ pc = "mode_r"
    /\ Receive(ModeLines, "mode_p")
    /\ UNCHANGED <<state, device, collab, history, ipc>>

\* a slip in lines 181-182: the stopped mode also sets the state ON
ReadIsOn_Store_StoppedSetsOn ==
    /\ pc = "mode_p"
    /\ LET f == ParseFloat(response)
           r == IntOfFloat(f.val)
       IN  /\ is_on' = IF f.ok /\ r = 0 THEN TRUE
                       ELSE IF f.ok /\ r = 1 THEN FALSE ELSE is_on
           /\ state' = IF f.ok /\ r = 0 THEN "RUNNING"
                       ELSE IF f.ok /\ r = 1 THEN "ON" ELSE state
    /\ Return("unlock3")
    /\ UNCHANGED <<bath_temp, temp_setp, temp_setp_changed, chiller_status,
                   is_on_toggle, pressure, collab, history, ipc>>

\* _read_is_on, lines 176-184
ReadIsOn_Store ==
    /\ pc = "mode_p"
    /\ LET f == ParseFloat(response)
           r == IntOfFloat(f.val)
       IN  /\ is_on' = IF f.ok /\ r = 0 THEN TRUE
                       ELSE IF f.ok /\ r = 1 THEN FALSE ELSE is_on
           /\ state' = IF f.ok /\ r = 0 THEN "RUNNING" ELSE state
    /\ Return("unlock3")
    /\ UNCHANGED <<bath_temp, temp_setp, temp_setp_changed, chiller_status,
                   is_on_toggle, pressure, collab, history, ipc>>

\* the end of the third `with` block, line 132
ReleaseMode ==
    /\ Release("unlock3", "sleep")
    /\ UNCHANGED <<nominal, state, device, collab, history, ipc, command, response, exc,
                   wire>>

\* line 134, then the next iteration of `while True`
Sleep ==
    /\ pc = "sleep"
    /\ pc' = "lock1"
    /\ UNCHANGED <<nominal, state, device, collab, history, ipc, serial_lock, command,
                   response, exc, wire>>

(***************************************************************************)
(* The collaborator: the Tango layer calls the attribute accessors (lines  *)
(* 219-241) one call at a time, once init_device has returned.             *)
(***************************************************************************)
Exported == ipc \in {"done", "failed"}

\* a read accessor returns a field and assigns nothing
Accessor(field) ==
    /\ Exported
    /\ cpc = "idle"
    /\ field = field
    /\ UNCHANGED vars

\* lines 219-220
read_bath_temp == Accessor(bath_temp)

\* lines 222-223
read_temp_setp == Accessor(temp_setp)

\* lines 225-226
read_chiller_status == Accessor(chiller_status)

\* lines 228-229
read_is_on == Accessor(is_on)

\* lines 231-232
read_pressure == Accessor(pressure)

\* write_temp_setp, line 236
write_temp_setp_Value ==
    /\ Exported
    /\ cpc = "idle"
    /\ \E value \in SetpointValues :
          /\ temp_setp' = value
          /\ reqSetp' = {value}
          /\ sleepSetp' = IF BetweenCycles THEN {value} ELSE {}
    /\ cpc' = "setp_flag"
    /\ nominal' = FALSE
    /\ UNCHANGED <<state, bath_temp, temp_setp_changed, chiller_status, is_on,
                   is_on_toggle, pressure, powerLog, pushed, sleepPower, alarm,
                   ipc, pc, serial_lock, command, response, exc, wire, carg>>

\* write_temp_setp, line 237
write_temp_setp_Flag ==
    /\ cpc = "setp_flag"
    /\ temp_setp_changed' = TRUE
    /\ cpc' = "idle"
    /\ UNCHANGED <<nominal, state, bath_temp, temp_setp, chiller_status, is_on,
                   is_on_toggle, pressure, history, ipc, pc, serial_lock,
                   command, response, exc, wire, carg>>

\* write_is_on, line 240
write_is_on_Toggle ==
    /\ Exported
    /\ cpc = "idle"
    /\ \E value \in BOOLEAN :
          /\ carg' = value
          /\ sleepPower' = IF BetweenCycles THEN {value} ELSE {}
    /\ is_on_toggle' = TRUE
    /\ cpc' = "ison_val"
    /\ nominal' = FALSE
    /\ UNCHANGED <<state, bath_temp, temp_setp, temp_setp_changed, chiller_status,
                   is_on, pressure, powerLog, pushed, sleepSetp, reqSetp, alarm,
                   ipc, pc, serial_lock, command, response, exc, wire>>

\* a slip in write_is_on: the state set at once by the caller
write_is_on_Value_SetsState ==
    /\ cpc = "ison_val"
    /\ is_on' = carg
    /\ state' = IF carg THEN "RUNNING" ELSE "ON"
    /\ cpc' = "idle"
    /\ UNCHANGED <<nominal, bath_temp, temp_setp, temp_setp_changed,
                   chiller_status, is_on_toggle, pressure, history, ipc, pc,
                   serial_lock, command, response, exc, wire, carg>>

\* write_is_on, line 241
write_is_on_Value ==
    /\ cpc = "ison_val"
    /\ is_on' = carg
    /\ cpc' = "idle"
    /\ UNCHANGED <<nominal, state, bath_temp, temp_setp, temp_setp_changed, chiller_status,
                   is_on_toggle, pressure, history, ipc, pc, serial_lock, command,
                   response, exc, wire, carg>>

(***************************************************************************)
(* The system.                                                             *)
(***************************************************************************)
Next ==
    \/ InitOpen
    \/ InitProbeWrite
    \/ InitProbeRead
    \/ InitProbeCheck
    \/ InitStartThread
    \/ AcquireFlush
    \/ WriteIsOn_Check
    \/ WriteIsOn_Send
    \/ WriteIsOn_Recv
    \/ WriteIsOn_SetState
    \/ WriteIsOn_Push
    \/ WriteIsOn_Clear
    \/ WriteSetp_Check
    \/ WriteSetp_Send
    \/ WriteSetp_Recv
    \/ WriteSetp_Clear
    \/ ReleaseFlush
    \/ AcquireRead
    \/ ReadBathTemp_Send
    \/ ReadBathTemp_Recv
    \/ ReadBathTemp_Store
    \/ ReadPressure_Send
    \/ ReadPressure_Recv
    \/ ReadPressure_Store
    \/ ReadSetp_Send
    \/ ReadSetp_Recv
    \/ ReadSetp_Store
    \/ ReadStatus_Send
    \/ ReadStatus_Recv
    \/ ReadStatus_Check
    \/ ReadStat_Send
    \/ ReadStat_Recv
    \/ ReadStat_Store
    \/ ReleaseRead
    \/ AcquireMode
    \/ ReadIsOn_Send
    \/ ReadIsOn_Recv
    \/ ReadIsOn_Store
    \/ ReleaseMode
    \/ Sleep
    \/ read_bath_temp
    \/ read_temp_setp
    \/ read_chiller_status
    \/ read_is_on
    \/ read_pressure
    \/ write_temp_setp_Value
    \/ write_temp_setp_Flag
    \/ write_is_on_Toggle
    \/ write_is_on_Value

Spec == Init /\ [][Next]_vars

(***************************************************************************)
(* Properties.                                                             *)
(***************************************************************************)
\* C1: at most one exchange (command written, line not yet read) is in
\* progress; once the thread is started every exchange is the thread's, made
\* while it holds serial_lock; no step of a collaborator call starts or ends
\* an exchange.
C1_SingleExchange ==
    /\ [](/\ Cardinality(wire) <= 1
          /\ pc # "idle" =>
                \A x \in wire : x.by = "worker" /\ serial_lock = "worker")
    /\ [][cpc' # cpc => wire' = wire]_vars

C1_Witness ==
    /\ wire = {Exchange("worker", "IN_MODE_02")}
    /\ cpc = "setp_flag"

\* C2: a setpoint V submitted between two cycles is flushed by the next
\* cycle before its first read: when the flush section is over the last command
\* written is OUT_SP_00_V, its response has been read and the pending flag is
\* false.
C2_SetpointFlushedFirst ==
    \A v \in sleepSetp :
        pc \in {"unlock1", "lock2"} =>
            /\ command = OutSp(v)
            /\ wire = {}
            /\ ~temp_setp_changed

C2_Witness ==
    /\ sleepSetp # {}
    /\ pc = "lock2"
    /\ command = "OUT_SP_00_18.0"

\* C3: every OUT_SP_00 command carries the value of the latest write_temp_setp
\* call that no earlier command has carried.
C3_LastWriteWins ==
    [][(pc = "setp_w" /\ pc' = "setp_r") =>
            \A v \in reqSetp : command' = OutSp(v)]_vars

\* C4: power requests submitted between two cycles lead to exactly one
\* START/STOP command in the next cycle's flush, the one of the last request.
C4_LastPowerRequestWins ==
    \A on \in sleepPower :
        pc \in {"setp_chk", "setp_w", "setp_r", "setp_clr", "unlock1", "lock2"} =>
            powerLog = <<IF on THEN "START" ELSE "STOP">>

C4_Witness ==
    /\ sleepPower = {FALSE}
    /\ pc = "lock2"
    /\ powerLog = <<"STOP">>
    /\ ~is_on_toggle

\* C5: the pending flag is never cleared for a submission whose value no
\* command has carried: a completed write_temp_setp call whose value is in no
\* OUT_SP_00 command formed since is still pending.
C5_NoLostSetpoint ==
    (reqSetp # {} /\ cpc # "setp_flag") => temp_setp_changed

\* the numerals among the device's lines, and the values they denote
Numeral(text) == text \in {<<"2", "3", ".", "5">>, <<"1", ".", "2">>,
                           <<"2", "1", ".", "0">>, <<"1", "9", ".", "5">>}

Denoted(text) ==
    IF text = <<"2", "3", ".", "5">> THEN [neg |-> FALSE, m |-> 235, e |-> 1]
    ELSE IF text = <<"1", ".", "2">> THEN [neg |-> FALSE, m |-> 12, e |-> 1]
    ELSE IF text = <<"2", "1", ".", "0">> THEN [neg |-> FALSE, m |-> 21, e |-> 0]
    ELSE [neg |-> FALSE, m |-> 195, e |-> 1]

Decoded(text, old) == IF Numeral(text) THEN Denoted(text) ELSE old

\* C6: a numeric response to IN_PV_00, IN_PV_02 or IN_SP_00 becomes the
\* published value; after any other response (the empty line too) the
\* published value is what it was.
C6_LastGoodValue ==
    [][/\ (pc = "bath_p" /\ pc' # pc) => bath_temp' = Decoded(response, bath_temp)
       /\ (pc = "pres_p" /\ pc' # pc) => pressure' = Decoded(response, pressure)
       /\ (pc = "sp_p" /\ pc' # pc) => temp_setp' = Decoded(response, temp_setp)
      ]_vars

C6_Witness ==
    /\ pc = "bath_p"
    /\ response = Txt_ERR
    /\ bath_temp = [neg |-> FALSE, m |-> 235, e |-> 1]

\* C7: a response the thread cannot decode does not end the thread.
C7_DecodeErrorNotFatal == ~(pc = "dead" /\ exc = "ValueError")

\* C8: a failing write or read on the serial port does not end the thread.
C8_TransportFailureNotFatal == ~(pc = "dead" /\ exc = "SerialException")

\* C9: after a STATUS response of -1 in the polling cycle the thread goes on
\* polling: it is never found ended while the alarm is the latest status.
C9_AlarmDoesNotHaltPolling == alarm => pc # "dead"

\* C10: while -1 is the latest STATUS code read by the polling cycle, the
\* state is FAULT.
C10_FaultSticky == alarm => state = "FAULT"

\* C11: a startup that fails (the port does not open, the STATUS exchange
\* raises, or its response is not an integer numeral) ends in FAULT, and then
\* the thread is never started and no polling exchange is ever made; the
\* thread runs only after init_device has read an integer: then the state is
\* ON for 0 and FAULT for -1.
C11_StartupGate ==
    /\ [](ipc = "failed" =>
             state = "FAULT" /\ pc = "idle" /\ command = "" /\ wire = {})
    /\ [](pc # "idle" => ipc = "done")
    /\ [][(ipc = "probe_c" /\ ipc' # ipc) =>
              IF response = <<"0">>
              THEN ipc' = "start" /\ state' = "ON"
              ELSE IF response = <<"-", "1">>
              THEN ipc' = "start" /\ state' = "FAULT"
              ELSE IF response = <<"2">>
              THEN ipc' = "start"
              ELSE ipc' = "failed" /\ state' = "FAULT"]_vars
    /\ [][(pc = "idle" /\ pc' # "idle") => ipc = "start"]_vars

C11_Witness ==
    /\ ipc = "failed"
    /\ pc = "idle"
    /\ state = "FAULT"
    /\ temp_setp_changed

\* C12: with the healthy device (0 to STATUS, 23.5 to IN_PV_00, 1.2 to
\* IN_PV_02, 21.0 to IN_SP_00, OK to STAT, 0 to IN_MODE_02) and no collaborator
\* write, at the end of a complete cycle the published values are 23.5, 1.2,
\* 21.0, "OK", is_on true and the state is RUNNING.
C12_EndToEnd ==
    (nominal /\ pc = "sleep") =>
        /\ bath_temp = [neg |-> FALSE, m |-> 235, e |-> 1]
        /\ pressure = [neg |-> FALSE, m |-> 12, e |-> 1]
        /\ temp_setp = [neg |-> FALSE, m |-> 21, e |-> 0]
        /\ chiller_status = <<"O", "K">>
        /\ is_on
        /\ state = "RUNNING"

C12_Witness ==
    /\ nominal
    /\ pc = "sleep"
    /\ command = "IN_MODE_02"
    /\ chiller_status = <<"O", "K">>


\* C13: the value read_temp_setp returns (the field temp_setp, line 223)
\* is the value of the last IN_SP_00 response that was a numeral, or the
\* startup value: it changes only when _read_setp stores a parsed response,
\* and a write_temp_setp call does not change it.
C13_SetpointIsLastReading ==
    [][temp_setp' # temp_setp =>
          /\ pc = "sp_p" /\ pc' # pc
          /\ Numeral(response)
          /\ temp_setp' = Denoted(response)]_vars

\* the commands of the cycle, and the place of each in it
PowerCommands == {"START", "STOP"}

OutSpCommands ==
    {OutSp(v) : v \in SetpointValues \cup {[neg |-> FALSE, m |-> 21, e |-> 0],
                                            [neg |-> FALSE, m |-> 195, e |-> 1]}}

ReadOrder == <<"IN_PV_00", "IN_PV_02", "IN_SP_00", "STATUS", "STAT", "IN_MODE_02">>

CycleEnd == {"", ReadOrder[6]}

Follows(prev, cmd) ==
    IF cmd \in PowerCommands THEN prev \in CycleEnd
    ELSE IF cmd \in OutSpCommands THEN prev \in CycleEnd \cup PowerCommands
    ELSE IF cmd = ReadOrder[1]
         THEN prev \in CycleEnd \cup PowerCommands \cup OutSpCommands
    ELSE \E i \in 2..6 : cmd = ReadOrder[i] /\ prev = ReadOrder[i - 1]

\* C14: the thread's exchanges come in the order of the cycle: START or STOP
\* only first in a cycle, OUT_SP_00 only first or right after START/STOP,
\* IN_PV_00 first or right after the flush, and then IN_PV_02, IN_SP_00,
\* STATUS, STAT, IN_MODE_02 each right after the one before, whether or not
\* the cycle flushed anything.
C14_FixedOrder ==
    [][\A x \in wire' \ wire :
          x.by = "worker" => x.cmd = command' /\ Follows(command, x.cmd)]_vars

C14_Witness ==
    /\ pc = "setp_r"
    /\ powerLog = <<"START">>
    /\ wire # {}

\* C15: a START/STOP command is the one the latest write_is_on call asked
\* for (carg is that call's argument): START for true, STOP for false,
\* however the call interleaves with the cycle.
C15_PowerCommandIsRequest ==
    [][(pc = "ison_w" /\ pc' = "ison_r") =>
          command' = (IF carg THEN "START" ELSE "STOP")]_vars


\* the flush section is over (lines 122-123 done) and the thread is alive
AfterPowerFlush ==
    pc \in {"setp_chk", "setp_w", "setp_r", "setp_clr", "unlock1", "lock2"}

\* C16: flushing a pending power request sets the state to RUNNING when the
\* request slot (is_on, as line 193 reads it) is on and to ON when it is
\* off, and leaves the pending flag cleared; for a request made between two
\* cycles that is the requested value.  With no request pending the step
\* makes no exchange and changes neither the state, is_on nor the flag.
C16_PowerFlushEffect ==
    /\ [][(pc = "ison_settle" /\ pc' # pc) =>
             state' = (IF is_on THEN "RUNNING" ELSE "ON")]_vars
    /\ [][(pc = "ison_clr" /\ pc' # pc) => ~is_on_toggle']_vars
    /\ [][(pc = "ison_chk" /\ ~is_on_toggle /\ pc' # pc) =>
             /\ pc' = "setp_chk"
             /\ UNCHANGED <<wire, command, state, is_on, is_on_toggle>>]_vars
    /\ [](\A on \in sleepPower : AfterPowerFlush =>
             /\ state = (IF on THEN "RUNNING" ELSE "ON")
             /\ ~is_on_toggle)

C16_Witness ==
    /\ sleepPower = {TRUE}
    /\ pc = "setp_chk"
    /\ state = "RUNNING"
    /\ powerLog = <<"START">>

\* C17: is_on change events are pushed only inside the flush of a pending
\* power request, after its START/STOP exchange is over, with the value of
\* is_on; a cycle pushes at most one, exactly one when it made a START/STOP
\* exchange and none when no request was pending; for a request made between
\* two cycles the event carries the requested value.
C17_EdgeTriggered ==
    /\ [](Len(pushed) <= Len(powerLog) /\ Len(powerLog) <= 1)
    /\ [](AfterPowerFlush => Len(pushed) = Len(powerLog))
    /\ [][(pushed' # pushed /\ pushed' # <<>>) =>
             /\ pc = "ison_push"
             /\ is_on_toggle
             /\ powerLog # <<>> /\ wire = {}
             /\ pushed' = <<is_on>>]_vars
    /\ [][(pc = "ison_chk" /\ ~is_on_toggle /\ pc' # pc) =>
             pc' \notin {"ison_w", "ison_r", "ison_settle", "ison_push"}]_vars
    /\ [](\A on \in sleepPower : AfterPowerFlush => pushed = <<on>>)

C17_Witness ==
    /\ pc = "ison_clr"
    /\ pushed = <<FALSE>>
    /\ powerLog = <<"STOP">>


\* C18: the IN_MODE_02 step maps its response: "0" sets is_on and the state
\* RUNNING; "1" clears is_on and leaves the state (so RUNNING with is_on false
\* is reached); another integer or a response that is no number leaves both.
C18_ModeMapping ==
    [][(pc = "mode_p" /\ pc' # pc) =>
          IF response = <<"0">> THEN is_on' /\ state' = "RUNNING"
          ELSE IF response = <<"1">> THEN ~is_on' /\ state' = state
          ELSE is_on' = is_on /\ state' = state]_vars

C18_Witness ==
    /\ pc = "unlock3"
    /\ state = "RUNNING"
    /\ ~is_on
    /\ ~is_on_toggle

\* the integers other than -1 among the STATUS responses
StatusNotAlarm == {<<"0">>, <<"0", ".", "0">>, <<"2">>}

\* C19: in the polling cycle a STATUS response of 0, or of another integer
\* than -1, leaves the state as it was: it does not clear FAULT and does not
\* set ON.
C19_StatusOkKeepsState ==
    [][(pc = "status_p" /\ pc' # pc /\ response \in StatusNotAlarm) =>
          state' = state /\ pc' = "stat_w"]_vars

C19_Witness ==
    /\ pc = "stat_w"
    /\ command = "STATUS"
    /\ state = "FAULT"
    /\ ~alarm

\* the fields that are not request data: the readings, the state and what
\* the thread and init_device own
NotRequestData ==
    <<bath_temp, pressure, chiller_status, state, serial_lock, ipc, pc, command,
      response, exc, wire>>

\* C20: a step of write_temp_setp changes temp_setp and temp_setp_changed
\* only, a step of write_is_on changes is_on and is_on_toggle only; once
\* init_device has returned, bath_temp, pressure, chiller_status and the
\* state change only in steps of the thread.
C20_SingleWriter ==
    /\ [][cpc' # cpc => UNCHANGED NotRequestData]_vars
    /\ [][(cpc' # cpc /\ "setp_flag" \in {cpc, cpc'}) =>
             UNCHANGED <<is_on, is_on_toggle>>]_vars
    /\ [][(cpc' # cpc /\ "ison_val" \in {cpc, cpc'}) =>
             UNCHANGED <<temp_setp, temp_setp_changed>>]_vars
    /\ [][(Exported /\ <<bath_temp, pressure, chiller_status, state>>'
                          # <<bath_temp, pressure, chiller_status, state>>) =>
             pc' # pc /\ cpc' = cpc]_vars

C20_Witness ==
    /\ cpc = "ison_val"
    /\ pc = "stat_p"
    /\ temp_setp_changed
    /\ state = "RUNNING"


====
